---- MODULE Spec2Model ----
(***************************************************************************)
(* Model of dailies.py: the Dailies class, which builds ffmpeg command     *)
(* lines (argument list + filtergraph string) for a slate image and a      *)
(* review movie.                                                           *)
(*                                                                         *)
(* A Python string is modelled as a sequence of tokens: every character    *)
(* the filtergraph syntax gives a meaning to ( [ ] ; , : ' \ and the       *)
(* space ) is a token of its own, every digit produced by str() is a       *)
(* token, and any other run of characters is one opaque token.             *)
(* String concatenation and str.format are \o on such sequences.           *)
(*                                                                         *)
(* The external collaborators are modelled by what the class sees of       *)
(* them: os.environ as the value of the temp variable, the file system as  *)
(* the set of existing paths, FileSequence.findSequenceOnDisk as the frame *)
(* range per pattern, and ffmpeg as the exit status sp.call returns.       *)
(* Each public call is one action; last records the call, the commands it  *)
(* generated and the order of its steps.                                   *)
(***************************************************************************)
EXTENDS Integers, Sequences, FiniteSets, TLC

VARIABLES debug, environ, fs, fields_data, tmp_files, last, prev

vars == <<debug, environ, fs, fields_data, tmp_files, last, prev>>

\* Largest temp-file registry the model explores.
MaxTmpFiles == 2

(***************************************************************************)
(* Strings                                                                 *)
(***************************************************************************)
Digits == <<"0", "1", "2", "3", "4", "5", "6", "7", "8", "9">>

\* str(n) for a non-negative int
RECURSIVE str(_)
str(n) == IF n < 10 THEN <<Digits[n + 1]>>
          ELSE str(n \div 10) \o <<Digits[(n % 10) + 1]>>

\* The Python value None, and what '{}'.format(None) prints
None == <<"<None>">>
Format(v) == IF v = None THEN <<"None">> ELSE v

\* os.path.join(a, b) for the POSIX flavour
os_path_join(a, b) ==
    IF b # <<>> /\ b[1] = "/" THEN b
    ELSE IF a # <<>> /\ a[Len(a)] = "/" THEN a \o b
    ELSE a \o <<"/">> \o b

\* os.path.split(p): (head, tail) around the last slash
os_path_split(p) ==
    LET slashes == {i \in 1..Len(p) : p[i] = "/"} IN
    IF slashes = {} THEN <<(<<>>), p>>
    ELSE LET k == CHOOSE i \in slashes : \A j \in slashes : j <= i IN
         <<IF k = 1 THEN <<"/">> ELSE SubSeq(p, 1, k - 1), SubSeq(p, k + 1, Len(p))>>

\* s.split(' ')
RECURSIVE SplitSpace(_, _, _)
SplitSpace(s, i, cur) ==
    IF i > Len(s) THEN <<cur>>
    ELSE IF s[i] = " " THEN <<cur>> \o SplitSpace(s, i + 1, <<>>)
    ELSE SplitSpace(s, i + 1, Append(cur, s[i]))
split_space(s) == SplitSpace(s, 1, <<>>)

\* s.replace(old, new) where old is a single token
RECURSIVE ReplaceFrom(_, _, _, _)
ReplaceFrom(s, from, old, new) ==
    LET hits == {i \in from..Len(s) : s[i] = old} IN
    IF hits = {} THEN SubSeq(s, from, Len(s))
    ELSE LET k == CHOOSE i \in hits : \A j \in hits : i <= j IN
         SubSeq(s, from, k - 1) \o new \o ReplaceFrom(s, k + 1, old, new)
replace(s, old, new) == ReplaceFrom(s, 1, old, new)

(***************************************************************************)
(* Dailies.__init__: configuration, resources, layout                      *)
(***************************************************************************)
script_dir == <<"/", "opt", "/", "dailies">>

\* config.yml as loaded by yaml.load
config == [bars          |-> <<"bars.png">>,
           color_bar     |-> <<"color_bars.png">>,
           company_logo  |-> <<"logo.png">>,
           company_font  |-> <<"logo.ttf">>,
           body_font     |-> <<"body.ttf">>,
           video_pressets |->
               [p \in {<<"h264">>} |->
                   <<"-vcodec", " ", "libx264", " ", "-crf", " ", "2", "0">>]]

ffmpeg_local == os_path_join(os_path_join(script_dir, <<"bin">>), <<"ffmpeg">>)

res == os_path_join(script_dir, <<"resources">>)
bars == os_path_join(res, config.bars)
color_bars == os_path_join(res, config.color_bar)
logo == os_path_join(res, config.company_logo)
logo_font_file == os_path_join(res, config.company_font)
font_file == os_path_join(res, config.body_font)

left_text_margin == <<"(w)/2+150">>
top_text_margin == <<"3", "8", "0">>
font_size == 40
line_spacing == 40
font_color == <<"White">>
new_x == <<"1", "9", "2", "0">>
new_y == <<"1", "0", "8", "0">>

\* Keys of fields_data, in the order the dict literal declares them
FieldKeys == <<"company_name", "project_name", "lut", "shot_name",
               "file_name", "fps", "frame_range", "frame_total", "handles",
               "comp_res", "date", "user", "description">>
KeySet == {FieldKeys[i] : i \in 1..Len(FieldKeys)}


(***************************************************************************)
(* Environment: TMPDIR, the directories that exist, the frames on disk     *)
(***************************************************************************)
\* sys.platform of the interpreter the model runs the class on
sys_platform == "linux"

\* Values of TMPDIR: a directory that exists (written with a trailing
\* slash), one that does not
TmpPresent == <<"/", "tmp", "/">>
TmpAbsent == <<"/", "scratch">>

\* os.path.abspath of an absolute path: trailing slashes are dropped
RECURSIVE os_path_abspath(_)
os_path_abspath(path) ==
    IF Len(path) > 1 /\ path[Len(path)] = "/"
    THEN os_path_abspath(SubSeq(path, 1, Len(path) - 1))
    ELSE path

\* Path components Windows has shortened with a tilde, and getpass.getuser()
ShortNames == {"EVILEY~1"}
getuser == "evileye_52"

SeqOnDisk == <<"/", "shots", "/", "shot010", ".", "%04d", ".", "exr">>
SeqNotOnDisk == <<"/", "shots", "/", "shot020", ".", "%04d", ".", "exr">>
Sources == {SeqOnDisk, SeqNotOnDisk}

\* re.sub(r'%[0-9]+d', '#', path)
re_sub_padding(path) == replace(path, "%04d", <<"#">>)

\* Frame ranges FileSequence.findSequenceOnDisk finds, by '#' pattern
Disk == (re_sub_padding(SeqOnDisk) :> [start |-> 1001, end |-> 1050])

(***************************************************************************)
(* _get_tmp_dir, _get_tmp_file, _get_seq, fields_from_dict                 *)
(***************************************************************************)
\* env is os.environ.get(<TMPDIR or TEMP>); abspath(None) raises TypeError.
\* On win32 the separators become '/', and every component that holds '~1'
\* is replaced by the user name. On any other platform tmp stays None.
_get_tmp_dir(env) ==
    IF sys_platform \in {"darwin", "linux"}
    THEN IF env = None THEN [exc |-> "TypeError", ret |-> <<>>]
         ELSE [exc |-> "none", ret |-> os_path_abspath(env)]
    ELSE IF sys_platform = "win32"
    THEN IF env = None THEN [exc |-> "TypeError", ret |-> <<>>]
         ELSE LET tmp == replace(os_path_abspath(env), "\\", <<"/">>) IN
              [exc |-> "none",
               ret |-> [i \in 1..Len(tmp) |->
                          IF tmp[i] \in ShortNames THEN getuser ELSE tmp[i]]]
    ELSE [exc |-> "none", ret |-> None]

\* Variant: the temp name is made unique per registry entry
_get_tmp_file_unique(tf, env, fsys, name) ==
    LET d == _get_tmp_dir(env) IN
    IF d.exc # "none"
    THEN [exc |-> d.exc, ret |-> <<>>, tmp_files |-> tf, fs |-> fsys]
    ELSE IF d.ret = None
    THEN [exc |-> "TypeError", ret |-> <<>>, tmp_files |-> tf, fs |-> fsys]
    ELSE IF d.ret \notin fsys
    THEN [exc |-> "AttributeError", ret |-> <<>>, tmp_files |-> tf, fs |-> fsys]
    ELSE LET temp_file_path == os_path_join(d.ret, str(Len(tf)) \o name) IN
         [exc |-> "none", ret |-> temp_file_path,
          tmp_files |-> Append(tf, temp_file_path), fs |-> fsys]

\* os.path.exists(None) raises TypeError. os has no attribute 'mkdirs':
\* for a directory that does not exist line 113 raises AttributeError.
_get_tmp_file(tf, env, fsys, name) ==
    LET d == _get_tmp_dir(env) IN
    IF d.exc # "none"
    THEN [exc |-> d.exc, ret |-> <<>>, tmp_files |-> tf, fs |-> fsys]
    ELSE IF d.ret = None
    THEN [exc |-> "TypeError", ret |-> <<>>, tmp_files |-> tf, fs |-> fsys]
    ELSE IF d.ret \notin fsys
    THEN [exc |-> "AttributeError", ret |-> <<>>, tmp_files |-> tf, fs |-> fsys]
    ELSE LET temp_file_path == os_path_join(d.ret, name) IN
         [exc |-> "none", ret |-> temp_file_path,
          tmp_files |-> Append(tf, temp_file_path), fs |-> fsys]

\* findSequenceOnDisk raises FileSeqException when nothing matches
_get_seq(path) ==
    LET s == re_sub_padding(path) IN
    IF s \in DOMAIN Disk
    THEN [exc |-> "none", start |-> Disk[s].start, end |-> Disk[s].end]
    ELSE [exc |-> "FileSeqException", start |-> 0, end |-> 0]

\* A dict argument is a function on KeySet; Absent marks a key not in it.
Absent == <<"<absent>">>
HasKey(d, k) == d[k] # Absent

\* Variant: fields_dict.get(k) instead of fields_dict[k]
fields_from_dict_get(fd, d) ==
    [exc |-> "none",
     fields_data |-> [k \in KeySet |-> IF HasKey(d, k) THEN d[k] ELSE None]]

\* for k, v in self.fields_data.items(): self.fields_data[k] = fields_dict[k]
\* fields_dict[k] raises KeyError at the first absent key; the keys before
\* it in iteration order (the declaration order, as dicts keep it) have
\* already been overwritten.
fields_from_dict(fd, d) ==
    LET missing == {i \in 1..Len(FieldKeys) : ~HasKey(d, FieldKeys[i])}
        first == CHOOSE i \in missing : \A j \in missing : i <= j
        idx(k) == CHOOSE i \in 1..Len(FieldKeys) : FieldKeys[i] = k
    IN IF missing = {}
       THEN [exc |-> "none", fields_data |-> [k \in KeySet |-> d[k]]]
       ELSE [exc |-> "KeyError",
             fields_data |-> [k \in KeySet |->
                                IF idx(k) < first THEN d[k] ELSE fd[k]]]


(***************************************************************************)
(* make_slate: the slate filtergraph and its command                       *)
(***************************************************************************)
\* p: alignment of a row's caption (lines 199-203)
p_align == <<"x=">> \o left_text_margin \o <<"-text_w", ":", "y=">>
             \o top_text_margin \o <<"+">> \o str(line_spacing)

\* pv: alignment of a row's value (lines 206-210)
pv_align == <<"x=">> \o left_text_margin \o <<"+10", ":", "y=">>
              \o top_text_margin \o <<"+">> \o str(line_spacing)

\* text: body text style (lines 213-217)
text_style == <<"drawtext", "=", "fontsize=">> \o str(font_size)
                \o <<":", "fontcolor=">> \o font_color
                \o <<":", "fontfile=", "'">> \o font_file \o <<"'", ":", "text">>

\* "{text}='<caption>\: ':{p}*<n>, "
RowLabel(caption, n) ==
    text_style \o <<"=", "'">> \o caption \o <<"\\", ":", " ", "'", ":">>
      \o p_align \o <<"*">> \o n \o <<",", " ">>

\* Variant: the row multiplier is left out of the value's alignment
RowValue_norow(v, n) ==
    text_style \o <<"=">> \o Format(v) \o <<":">>
      \o pv_align \o <<"*">> \o <<"0">> \o <<",", " ">>

\* "{text}={<key>}:{pv}*<n>, "
RowValue(v, n) ==
    text_style \o <<"=">> \o Format(v) \o <<":">>
      \o pv_align \o <<"*">> \o n \o <<",", " ">>

\* Lines 222-232: the plates, thumbnail, bars and logo
slate_plates ==
    <<"[", "1", ":v", "]", " ", "scale", "=">> \o new_x \o <<":">> \o new_y
      \o <<",", " ", "setsar", "=", "1", ":", "1", " ", "[", "base", "]", ";", " ">>
    \o <<"[", "0", ":v", "]", " ", "scale", "=">> \o new_x \o <<":">> \o new_y
      \o <<" ", "[", "thumbnail", "]", ";", " ">>
    \o <<"[", "thumbnail", "]", "[", "3", ":v", "]", " ", "overlay", " ",
         "[", "thumbnail", "]", ";", " ">>
    \o <<"[", "thumbnail", "]", "[", "3", ":v", "]", " ", "overlay", "=",
         "x=(main_w-overlay_w)", ":", "y=(main_h-overlay_h)", " ",
         "[", "thumbnail", "]", ";", " ">>
    \o <<"[", "thumbnail", "]", " ", "scale", "=", "(iw/4)", ":", "(ih/4)", " ",
         "[", "thumbnail", "]", ";", " ">>
    \o <<"[", "base", "]", "[", "thumbnail", "]", " ", "overlay", "=",
         "((main_w-overlay_w)/2)-500", ":", "(main_h-overlay_h)/2", " ",
         "[", "base", "]", ";", " ">>
    \o <<"[", "2", ":v", "]", " ", "scale", "=", "-1", ":", "-1", " ",
         "[", "self.bars", "]", ";", " ">>
    \o <<"[", "base", "]", "[", "self.bars", "]", " ", "overlay", "=",
         "x=(main_w-overlay_w)", ":", "y=(main_h-overlay_h-50)", " ",
         "[", "base", "]", ";", " ">>
    \o <<"[", "4", ":v", "]", " ", "scale", "=", "(iw*0.2)", ":", "(ih*0.2)", " ",
         "[", "self.logo", "]", ";", " ">>
    \o <<"[", "base", "]", "[", "self.logo", "]", " ", "overlay", "=",
         "x=500", ":", "y=100", " ", "[", "base", "]", ";", " ">>

\* Lines 233-235: "[base] " and the two headline texts
slate_headlines(fd) ==
    <<"[", "base", "]", " ">>
    \o <<"drawtext", "=", "fontsize=", "8", "0", ":", "fontcolor=">> \o font_color
      \o <<":", "fontfile=">> \o logo_font_file
      \o <<":", "text", "=">> \o Format(fd["company_name"])
      \o <<":", "x=690", ":", "y=130", ",", " ">>
    \o <<"drawtext", "=", "fontsize=", "5", "0", ":", "fontcolor=">> \o font_color
      \o <<":", "fontfile=">> \o font_file
      \o <<":", "text", "=">> \o Format(fd["project_name"])
      \o <<":", "x=(w)/2", ":", "y=250", ",", " ">>

\* The last row of the template ends in " " instead of ", "
DropComma(row) == SubSeq(row, 1, Len(row) - 2) \o <<" ">>

\* Lines 236-257: the caption/value rows
slate_rows(fd) ==
       RowLabel(<<"LUT">>, <<"0">>)
    \o RowValue(fd["lut"], <<"0">>)
    \o RowLabel(<<"Shot", " ", "name">>, <<"1">>)
    \o RowValue(fd["shot_name"], <<"1">>)
    \o RowLabel(<<"File", " ", "name">>, <<"2">>)
    \o RowValue(fd["file_name"], <<"2">>)
    \o RowLabel(<<"FPS">>, <<"3">>)
    \o RowValue(fd["fps"], <<"3">>)
    \o RowLabel(<<"Frame", " ", "range">>, <<"4">>)
    \o RowValue(fd["frame_range"], <<"4">>)
    \o RowLabel(<<"Frame", " ", "total">>, <<"5">>)
    \o RowValue(fd["frame_total"], <<"5">>)
    \o RowLabel(<<"Handles">>, <<"6">>)
    \o RowValue(fd["handles"], <<"6">>)
    \o RowLabel(<<"Comp", " ", "resolution">>, <<"7">>)
    \o RowValue(fd["comp_res"], <<"7">>)
    \o RowLabel(<<"Date">>, <<"8">>)
    \o RowValue(fd["date"], <<"8">>)
    \o RowLabel(<<"User">>, <<"9">>)
    \o RowValue(fd["user"], <<"9">>)
    \o RowLabel(<<"Description">>, <<"1", "0">>)
    \o DropComma(RowValue(fd["description"], <<"1", "0">>))

\* filters (lines 222-281)
slate_filters(fd) == slate_plates \o slate_headlines(fd) \o slate_rows(fd)

\* if debug: cmd.pop(1); cmd.pop(1)
pop1(cmd) == <<cmd[1]>> \o SubSeq(cmd, 3, Len(cmd))
strip_quiet(dbg, cmd) == IF dbg THEN pop1(pop1(cmd)) ELSE cmd

\* self._ffmpeg: the bundled binary when it exists, else the global one
ffmpeg_bin(fsys) == IF ffmpeg_local \in fsys THEN ffmpeg_local ELSE <<"ffmpeg">>

\* Variant: the two bars assets are listed in the other order
slate_cmd_swapped(fsys, dbg, start, src_seq, filters, output) ==
    strip_quiet(dbg,
      <<ffmpeg_bin(fsys), <<"-v">>, <<"quiet">>, <<"-y">>,
        <<"-start_number">>, str(start), <<"-i">>, src_seq,
        <<"-f">>, <<"lavfi">>, <<"-i">>, <<"color=c=black">>,
        <<"-i">>, color_bars, <<"-i">>, bars, <<"-i">>, logo,
        <<"-vframes">>, <<"1">>, <<"-filter_complex">>, filters, output>>)

\* cmd (lines 283-292)
slate_cmd(fsys, dbg, start, src_seq, filters, output) ==
    strip_quiet(dbg,
      <<ffmpeg_bin(fsys), <<"-v">>, <<"quiet">>, <<"-y">>,
        <<"-start_number">>, str(start), <<"-i">>, src_seq,
        <<"-f">>, <<"lavfi">>, <<"-i">>, <<"color=c=black">>,
        <<"-i">>, bars, <<"-i">>, color_bars, <<"-i">>, logo,
        <<"-vframes">>, <<"1">>, <<"-filter_complex">>, filters, output>>)

\* The engine's exit statuses the model distinguishes
Status == {0, 1}

\* make_slate(src_seq); st is the exit status sp.call returns
make_slate(fd, tf, env, fsys, dbg, src_seq, st) ==
    LET t == _get_tmp_file(tf, env, fsys, <<"tmp_slate.png">>)
        seq == _get_seq(src_seq)
        cmd == slate_cmd(fsys, dbg, seq.start, src_seq, slate_filters(fd), t.ret)
    IN IF t.exc # "none"
       THEN [exc |-> t.exc, ret |-> <<>>, tmp_files |-> t.tmp_files,
             events |-> <<>>, cmd |-> <<>>]
       ELSE IF seq.exc # "none"
       THEN [exc |-> seq.exc, ret |-> <<>>, tmp_files |-> t.tmp_files,
             events |-> << <<"tmpfile">> >>, cmd |-> <<>>]
       ELSE [exc |-> "none", ret |-> t.ret, tmp_files |-> t.tmp_files,
             events |-> << <<"tmpfile">>, <<"resolve">>,
                           <<"call", "slate">>, <<"exit", "slate", st>> >>,
             cmd |-> cmd]


(***************************************************************************)
(* make_mov: the movie filtergraph and its command                         *)
(***************************************************************************)
\* video_presets.get(preset), split on ' ', else the default settings
video_settings(preset) ==
    IF preset \in DOMAIN config.video_pressets
    THEN split_space(config.video_pressets[preset])
    ELSE << <<"-crf">>, <<"1", "8">>, <<"-vcodec">>, <<"mjpeg">>,
            <<"-pix_fmt">>, <<"yuvj444p">>, <<"-qmin">>, <<"1">>,
            <<"-qmax">>, <<"1">>, <<"-r">>, <<"2", "4">> >>

\* Variant: the "[base] null " node is left out
mov_base_nonull ==
    <<"[", "1", ":v", "]", " ", "scale", "=">> \o new_x \o <<":">> \o new_y
      \o <<",", " ", "setsar", "=", "1", ":", "1", " ">>

\* Lines 333-336
mov_base ==
    <<"[", "1", ":v", "]", " ", "scale", "=">> \o new_x \o <<":">> \o new_y
      \o <<",", " ", "setsar", "=", "1", ":", "1", " ", "[", "base", "]", ";", " ">>
    \o <<"[", "base", "]", " ", "null", " ">>

\* Lines 340-344
slate_filter ==
    <<"[", "base", "]", ";", " ">>
    \o <<"[", "0", ":v", "]", " ", "trim", "=", "start_frame=0", ":",
         "end_frame=1", " ", "[", "slate", "]", ";", " ">>
    \o <<"[", "slate", "]", "[", "base", "]", " ", "concat", " ">>

\* Lines 351-372
burnin_filter(file_name, start, end) ==
    <<"[", "base", "]", ";", " ", "[", "base", "]", " ">>
    \o <<"drawtext", "=", "fontsize=30", ":", " ", "fontcolor=">> \o font_color
    \o <<":", " ", "fontfile=">> \o font_file
    \o <<":", " ", "expansion=none", ":", " ", "text", "=">> \o file_name
    \o <<":", " ", "x=10", ":", "y=(h-(text_h+10))", ":", " ", "enable=",
         "'", "between(n", ",", "1", ",", "99999)", "'", ",", " ">>
    \o <<"drawtext", "=", "fontsize=30", ":", " ", "fontcolor=">> \o font_color
    \o <<":", " ", "fontfile=">> \o font_file
    \o <<":", " ", "start_number=1000", ":", " ", "text", "=", "@frame_number",
         " ", "\\", "[">> \o str(start) \o <<"-">> \o str(end)
    \o <<"\\", "]", ":", " ", "x=(w-(text_w+10))", ":", "y=(h-(text_h+10))",
         ":", " ", "enable=", "'", "between(n", ",", "1", ",", "99999)", "'">>

\* filters (lines 333-377)
mov_filters(burnin, slate, file_name, start, end) ==
    replace(mov_base
              \o (IF slate THEN slate_filter ELSE <<>>)
              \o (IF burnin THEN burnin_filter(file_name, start, end) ELSE <<>>),
            "@frame_number", <<"%{n}">>)

\* Variant: the sequence is listed before the slate image / null source
mov_inputs_swapped(slate, slate_path, start, src_seq) ==
    << <<"-start_number">>, str(start), <<"-i">>, src_seq >>
    \o (IF slate THEN << <<"-i">>, slate_path >>
        ELSE << <<"-f">>, <<"lavfi">>, <<"-i">>, <<"nullsrc=s=256x256:d=5">> >>)

\* Lines 382-392: stream 0 (slate image or null source), then the sequence
mov_inputs(slate, slate_path, start, src_seq) ==
    (IF slate THEN << <<"-i">>, slate_path >>
     ELSE << <<"-f">>, <<"lavfi">>, <<"-i">>, <<"nullsrc=s=256x256:d=5">> >>)
    \o << <<"-start_number">>, str(start), <<"-i">>, src_seq >>

\* cmd (lines 380-400)
mov_cmd(fsys, dbg, slate, slate_path, start, src_seq, preset, filters, out_mov) ==
    strip_quiet(dbg,
      << ffmpeg_bin(fsys), <<"-v">>, <<"quiet">>, <<"-y">> >>
      \o mov_inputs(slate, slate_path, start, src_seq)
      \o video_settings(preset)
      \o << <<"-filter_complex">>, filters, out_mov >>)

\* Variant: the rebound local 'slate' is returned
mov_return_slate(out_mov, slate_path) == slate_path

\* What make_mov hands back (line 406)
mov_return(out_mov, slate_path) == out_mov

\* make_mov(src_seq, out_mov, preset, burnin, slate);
\* st_s and st_m are the exit statuses of the slate and movie invocations
make_mov(fd, tf, env, fsys, dbg, src_seq, out_mov, preset, burnin, slate, st_s, st_m) ==
    LET seq == _get_seq(src_seq)
        file_name == os_path_split(src_seq)[2]
        filters == mov_filters(burnin, slate, file_name, seq.start, seq.end)
        s == make_slate(fd, tf, env, fsys, dbg, src_seq, st_s)
        cmd == mov_cmd(fsys, dbg, slate, s.ret, seq.start, src_seq, preset,
                       filters, out_mov)
        calls == << <<"call", "mov">>, <<"exit", "mov", st_m>> >>
    IN IF seq.exc # "none"
       THEN [exc |-> seq.exc, ret |-> <<>>, tmp_files |-> tf, events |-> <<>>,
             slate_cmd |-> <<>>, mov_cmd |-> <<>>]
       ELSE IF slate /\ s.exc # "none"
       THEN [exc |-> s.exc, ret |-> <<>>, tmp_files |-> s.tmp_files,
             events |-> << <<"resolve">> >> \o s.events,
             slate_cmd |-> <<>>, mov_cmd |-> <<>>]
       ELSE IF slate
       THEN [exc |-> "none", ret |-> mov_return(out_mov, s.ret),
             tmp_files |-> s.tmp_files,
             events |-> << <<"resolve">> >> \o s.events \o calls,
             slate_cmd |-> s.cmd, mov_cmd |-> cmd]
       ELSE [exc |-> "none", ret |-> mov_return(out_mov, s.ret),
             tmp_files |-> tf,
             events |-> << <<"resolve">> >> \o calls,
             slate_cmd |-> <<>>, mov_cmd |-> cmd]


(***************************************************************************)
(* Inputs the callers supply                                               *)
(***************************************************************************)
ValPlain == <<"ACES">>
ValColon == <<"1", "0", ":", "3", "0">>
ValApos == <<"it", "'", "s">>
Values == {ValPlain, ValColon, ValApos}

Uniform(v) == [k \in KeySet |-> v]
Without(d, ks) == [k \in KeySet |-> IF k \in ks THEN Absent ELSE d[k]]

\* Key sets left out of a mapping: the first key, a middle key, a middle
\* and the last key, all keys
MissingSets == {{"company_name"}, {"fps"}, {"fps", "description"}, KeySet}

Dicts == {Uniform(v) : v \in Values}
           \cup {Without(Uniform(ValPlain), ks) : ks \in MissingSets}

IsComplete(d) == \A k \in KeySet : HasKey(d, k)

TmpNames == {<<"tmp_slate.png">>, <<"burnin.png">>}

\* '' (empty), a preset config.yml names, a preset it does not name
Presets == {<<>>, <<"h264">>, <<"prores">>}

OutMov == <<"/", "out", "/", "shot010.mov">>

(***************************************************************************)
(* State machine                                                           *)
(***************************************************************************)
\* last: the most recent call, its arguments and its outcome
\* prev: the make_slate call right before the most recent one, if both the
\*       most recent call and the one before it were make_slate
NoCall == [op |-> "none", src |-> <<>>, out_mov |-> <<>>, preset |-> <<>>,
           burnin |-> FALSE, slate |-> FALSE, name |-> <<>>,
           dict |-> Uniform(Absent), exc |-> "none", ret |-> <<>>,
           events |-> <<>>, slate_cmd |-> <<>>, mov_cmd |-> <<>>,
           before |-> <<>>]

NoPrev == [op |-> "none", src |-> <<>>, exc |-> "none", ret |-> <<>>,
           cmd |-> <<>>]

Init ==
    /\ debug \in BOOLEAN
    /\ environ \in {None, TmpPresent, TmpAbsent}
    /\ fs = {os_path_abspath(TmpPresent)}
    /\ fields_data = [k \in KeySet |-> None]
    /\ tmp_files = <<>>
    /\ last = NoCall
    /\ prev = NoPrev

FieldsFromDict ==
    \E d \in Dicts :
        \E o \in {fields_from_dict(fields_data, d)} :
        /\ fields_data' = o.fields_data
        /\ last' = [NoCall EXCEPT !.op = "fields_from_dict", !.dict = d,
                                  !.exc = o.exc]
        /\ prev' = NoPrev
        /\ UNCHANGED <<debug, environ, fs, tmp_files>>

GetTmpFile ==
    \E name \in TmpNames :
        \E o \in {_get_tmp_file(tmp_files, environ, fs, name)} :
        /\ Len(o.tmp_files) <= MaxTmpFiles
        /\ tmp_files' = o.tmp_files
        /\ fs' = o.fs
        /\ last' = [NoCall EXCEPT !.op = "_get_tmp_file", !.name = name,
                                  !.exc = o.exc, !.ret = o.ret,
                                  !.before = tmp_files]
        /\ prev' = NoPrev
        /\ UNCHANGED <<debug, environ, fields_data>>

MakeSlate ==
    \E src \in Sources, st \in Status :
        \E o \in {make_slate(fields_data, tmp_files, environ, fs, debug, src, st)} :
        /\ Len(o.tmp_files) <= MaxTmpFiles
        /\ tmp_files' = o.tmp_files
        /\ last' = [NoCall EXCEPT !.op = "make_slate", !.src = src,
                                  !.exc = o.exc, !.ret = o.ret,
                                  !.events = o.events, !.slate_cmd = o.cmd,
                                  !.before = tmp_files]
        /\ prev' = IF last.op = "make_slate"
                   THEN [op |-> "make_slate", src |-> last.src,
                         exc |-> last.exc, ret |-> last.ret,
                         cmd |-> last.slate_cmd]
                   ELSE NoPrev
        /\ UNCHANGED <<debug, environ, fs, fields_data>>

MakeMov ==
    \E src \in Sources, preset \in Presets, burnin \in BOOLEAN,
       slate \in BOOLEAN, st_m \in Status :
      \E st_s \in (IF slate THEN Status ELSE {0}) :
        \E o \in {make_mov(fields_data, tmp_files, environ, fs, debug, src,
                          OutMov, preset, burnin, slate, st_s, st_m)} :
        /\ Len(o.tmp_files) <= MaxTmpFiles
        /\ tmp_files' = o.tmp_files
        /\ last' = [NoCall EXCEPT !.op = "make_mov", !.src = src,
                                  !.out_mov = OutMov, !.preset = preset,
                                  !.burnin = burnin, !.slate = slate,
                                  !.exc = o.exc, !.ret = o.ret,
                                  !.events = o.events,
                                  !.slate_cmd = o.slate_cmd,
                                  !.mov_cmd = o.mov_cmd,
                                  !.before = tmp_files]
        /\ prev' = NoPrev
        /\ UNCHANGED <<debug, environ, fs, fields_data>>

Next == FieldsFromDict \/ GetTmpFile \/ MakeSlate \/ MakeMov

Spec == Init /\ [][Next]_vars

TypeOK == /\ debug \in BOOLEAN
          /\ Len(tmp_files) <= MaxTmpFiles
          /\ DOMAIN fields_data = KeySet

(***************************************************************************)
(* Reading a command and a filtergraph back, the way ffmpeg does           *)
(***************************************************************************)
\* The inputs of a command, in order: the argument after each -i
InputPos(cmd) == {i \in 1..(Len(cmd) - 1) : cmd[i] = <<"-i">>}
NthOf(P, n) == CHOOSE i \in P : Cardinality({j \in P : j < i}) = n - 1
Inputs(cmd) ==
    LET P == InputPos(cmd) IN [n \in 1..Cardinality(P) |-> cmd[NthOf(P, n) + 1]]

\* The graph of a command: the argument after -filter_complex
GraphOf(cmd) ==
    cmd[(CHOOSE i \in 1..(Len(cmd) - 1) : cmd[i] = <<"-filter_complex">>) + 1]

\* Quoting and escaping: an apostrophe opens or closes a quoted run, a
\* backslash outside quotes escapes the next character.
Escaped(g, i) == i > 1 /\ g[i - 1] = "\\"
QuotePos(g) == {i \in 1..Len(g) : g[i] = "'" /\ ~Escaped(g, i)}
InQuote(qs, i) == Cardinality({j \in qs : j < i}) % 2 = 1
Structural(g, qs, i) == ~Escaped(g, i) /\ ~InQuote(qs, i)

\* Positions at which the parser sees the separator c
SepPos(g, c) ==
    LET qs == QuotePos(g) IN
    {i \in 1..Len(g) : g[i] = c /\ Structural(g, qs, i)}

\* Reserved characters of field values that reach the parser unprotected
Reserved == {":", "'"}
UnprotectedReserved(g) ==
    Cardinality(SepPos(g, ":")) + Cardinality(QuotePos(g))

FilterNames == {"scale", "setsar", "overlay", "drawtext", "null", "trim", "concat"}

\* A link label: [name] or a stream specifier [k:v]
LabelAt(g, i) == IF g[i + 2] = "]" THEN <<g[i + 1]>> ELSE <<g[i + 1], g[i + 2]>>
IsStream(lbl) == Len(lbl) = 2 /\ lbl[2] = ":v"

\* The chains of a graph (separated by ;), each with the labels it reads,
\* the filters it applies and the labels it writes
Chains(g) ==
    LET qs == QuotePos(g)
        semis == {i \in 1..Len(g) : g[i] = ";" /\ Structural(g, qs, i)}
        n == Cardinality(semis) + 1
        lo(k) == IF k = 1 THEN 1 ELSE NthOf(semis, k - 1) + 1
        hi(k) == IF k = n THEN Len(g) ELSE NthOf(semis, k) - 1
        opsAt(k) == {i \in lo(k)..hi(k) :
                        g[i] \in FilterNames /\ Structural(g, qs, i)}
        lblAt(k) == {i \in lo(k)..hi(k) : g[i] = "[" /\ Structural(g, qs, i)}
        chain(k) ==
            LET O == opsAt(k)
                L == lblAt(k)
                first == IF O = {} THEN hi(k) + 1 ELSE NthOf(O, 1)
                I == {i \in L : i < first}
                W == {i \in L : i > first}
            IN [ins  |-> [j \in 1..Cardinality(I) |-> LabelAt(g, NthOf(I, j))],
                ops  |-> [j \in 1..Cardinality(O) |-> g[NthOf(O, j)]],
                outs |-> [j \in 1..Cardinality(W) |-> LabelAt(g, NthOf(W, j))],
                at   |-> first]
    IN [k \in 1..n |-> chain(k)]

\* Stream indices the graph refers to
StreamRefs(cs) ==
    UNION {{cs[k].ins[j][1] : j \in {j \in 1..Len(cs[k].ins) : IsStream(cs[k].ins[j])}}
           : k \in 1..Len(cs)}

\* Chains that read exactly the labels ins, apply ops and write outs
ChainsLike(cs, ins, ops, outs) ==
    {k \in 1..Len(cs) : cs[k].ins = ins /\ cs[k].ops = ops /\ cs[k].outs = outs}

Stream(k) == <<k, ":v">>

MovBuilt == last.op = "make_mov" /\ last.exc = "none"
SlateBuilt == last.slate_cmd # <<>>

(***************************************************************************)
(* C1: every command make_mov generates has exactly two inputs: input 0 is *)
(* the slate image make_slate returned (slate=True) or a generated null    *)
(* source, never the sequence (slate=False); input 1 is the source         *)
(* sequence, right after -start_number <resolved start frame>; whatever    *)
(* the preset, burnin and debug.                                           *)
(***************************************************************************)
C1_MovInputOrder ==
    MovBuilt =>
        LET cmd == last.mov_cmd
            P == InputPos(cmd)
            ins == Inputs(cmd)
            i0 == NthOf(P, 1)
            i1 == NthOf(P, 2)
        IN /\ Len(ins) = 2
           /\ IF last.slate
              THEN /\ ins[1] = tmp_files[Len(tmp_files)]
                   /\ ins[1] = <<"/", "tmp", "/", "tmp_slate.png">>
              ELSE /\ ins[1] = <<"nullsrc=s=256x256:d=5">>
                   /\ cmd[i0 - 2] = <<"-f">> /\ cmd[i0 - 1] = <<"lavfi">>
                   /\ ins[1] # last.src
           /\ ins[2] = last.src
           /\ i1 = i0 + 4
           /\ cmd[i1 - 2] = <<"-start_number">>
           /\ cmd[i1 - 1] = str(Disk[re_sub_padding(last.src)].start)

C1_Witness ==
    /\ MovBuilt /\ last.slate /\ last.burnin /\ debug
    /\ last.preset = <<"h264">>

(***************************************************************************)
(* C2: in the command make_slate generates there are exactly 5 inputs, the *)
(* graph refers to stream indices 0..4 and to each of them, and the k-th   *)
(* input is the resource the graph uses index k for: 0 the sequence        *)
(* (scaled to thumbnail), 1 the black colour source (scaled to base),      *)
(* 3 the bars overlaid twice on the thumbnail, 2 the bars overlaid on      *)
(* base, 4 the logo; with debug on or off.                                 *)
(***************************************************************************)
C2_SlateInputsMatchGraph ==
    (last.op = "make_slate" /\ SlateBuilt) =>
        LET cmd == last.slate_cmd
            ins == Inputs(cmd)
            cs == Chains(GraphOf(cmd))
            base == <<"base">>
            thumb == <<"thumbnail">>
        IN /\ Len(ins) = 5
           /\ StreamRefs(cs) = {"0", "1", "2", "3", "4"}
           /\ ins[1] = last.src
           /\ ChainsLike(cs, <<Stream("0")>>, <<"scale">>, <<thumb>>) # {}
           /\ ins[2] = <<"color=c=black">>
           /\ ChainsLike(cs, <<Stream("1")>>, <<"scale", "setsar">>, <<base>>) # {}
           /\ ins[4] = color_bars
           /\ Cardinality(ChainsLike(cs, <<thumb, Stream("3")>>, <<"overlay">>,
                                     <<thumb>>)) = 2
           /\ ins[3] = bars
           /\ \E b \in {<<"self.bars">>} :
                /\ ChainsLike(cs, <<Stream("2")>>, <<"scale">>, <<b>>) # {}
                /\ ChainsLike(cs, <<base, b>>, <<"overlay">>, <<base>>) # {}
           /\ ins[5] = logo
           /\ \E l \in {<<"self.logo">>} :
                /\ ChainsLike(cs, <<Stream("4")>>, <<"scale">>, <<l>>) # {}
                /\ ChainsLike(cs, <<base, l>>, <<"overlay">>, <<base>>) # {}

C2_Witness ==
    /\ last.op = "make_slate" /\ SlateBuilt /\ ~debug
    /\ fields_data["lut"] = ValPlain


(***************************************************************************)
(* C3 (as amended): for every mapping that lacks at least one of the 13    *)
(* keys, fields_from_dict fails with Python's KeyError while populating,   *)
(* and no engine invocation occurs before that failure.                    *)
(***************************************************************************)
PopulateFailed == last.op = "fields_from_dict" /\ ~IsComplete(last.dict)

C3_MissingKeyRaisesKeyError ==
    PopulateFailed => (last.exc = "KeyError" /\ last.events = <<>>
                       /\ last.slate_cmd = <<>> /\ last.mov_cmd = <<>>)

\* C3 as stated: the failure is a ConfigMissingKeyError
C3_AsStated ==
    PopulateFailed => (last.exc = "ConfigMissingKeyError" /\ last.events = <<>>)

C3_Witness ==
    /\ PopulateFailed
    /\ ~HasKey(last.dict, "fps") /\ HasKey(last.dict, "lut")
    /\ fields_data["lut"] = ValPlain

(***************************************************************************)
(* C4: whenever an engine invocation made by make_slate or make_mov exits  *)
(* with a nonzero status the call raises RenderFailedError and returns no  *)
(* path, and make_mov does not start the movie encode after a failed       *)
(* slate invocation.                                                       *)
(***************************************************************************)
IsExit(ev) == Len(ev) = 3 /\ ev[1] = "exit"

C4_NonzeroExitRaises ==
    \A i \in 1..Len(last.events) :
        (IsExit(last.events[i]) /\ last.events[i][3] # 0) =>
            /\ last.exc = "RenderFailedError"
            /\ last.ret = <<>>
            /\ last.events[i][2] = "slate" =>
                  \A j \in (i + 1)..Len(last.events) :
                      last.events[j] # <<"call", "mov">>

(***************************************************************************)
(* C5: every colon or apostrophe of a FieldSet value is escaped in the     *)
(* slate graph, so the graph has as many unprotected reserved characters   *)
(* and as many option separators as the graph of a FieldSet without        *)
(* reserved characters.                                                    *)
(***************************************************************************)
C5_ReservedEscaped ==
    SlateBuilt =>
        LET g == GraphOf(last.slate_cmd)
            clean == slate_filters(Uniform(ValPlain))
        IN /\ Cardinality(SepPos(g, ":")) = Cardinality(SepPos(clean, ":"))
           /\ UnprotectedReserved(g) = UnprotectedReserved(clean)

(***************************************************************************)
(* The drawtext entries of a slate graph                                   *)
(***************************************************************************)
DrawtextPos(g) == {i \in 1..Len(g) : g[i] = "drawtext"}
Entry(g, D, k) ==
    SubSeq(g, NthOf(D, k),
           IF k = Cardinality(D) THEN Len(g) ELSE NthOf(D, k + 1) - 1)
Entries(g) == LET D == DrawtextPos(g) IN [k \in 1..Cardinality(D) |-> Entry(g, D, k)]

MinOf(P) == CHOOSE i \in P : \A j \in P : i <= j
MaxOf(P) == CHOOSE i \in P : \A j \in P : j <= i
PosOf(e, tok) == {i \in 1..Len(e) : e[i] = tok}
NotSep(t) == t \notin {",", " "}

\* text=<...> up to the alignment, the x alignment, the y expression
EntryText(e) ==
    LET t == MinOf({i \in PosOf(e, "text") : e[i + 1] = "="})
        x == MaxOf({i \in 1..Len(e) : e[i] \in {"x=", "x=690", "x=(w)/2"}})
    IN SubSeq(e, t + 2, x - 2)
EntryY(e) == SelectSeq(SubSeq(e, MaxOf(PosOf(e, "y=")) + 1, Len(e)), NotSep)
IsLabelEntry(e) == PosOf(e, "-text_w") # {}
IsValueEntry(e) == PosOf(e, "+10") # {}

\* Keys shown as rows: all but the two headline keys
RowKeys == SubSeq(FieldKeys, 3, Len(FieldKeys))
RowY(i) == top_text_margin \o <<"+">> \o str(line_spacing) \o <<"*">> \o str(i)

\* Entry numbers of the label/value pairs, in order
PairStarts(es) ==
    {k \in 1..(Len(es) - 1) : IsLabelEntry(es[k]) /\ IsValueEntry(es[k + 1])}

\* Pair number i (from 0) shows key at row i
PairShows(es, i, key) ==
    LET k == NthOf(PairStarts(es), i + 1) IN
    /\ EntryY(es[k]) = RowY(i)
    /\ EntryY(es[k + 1]) = RowY(i)
    /\ EntryText(es[k + 1]) = Format(fields_data[key])

(***************************************************************************)
(* C6 (as amended): for every FieldSet, slate graph construction succeeds  *)
(* and the drawtext chain holds the two headline texts (company_name,      *)
(* project_name) followed by exactly one label/value pair for each of the  *)
(* 11 other keys, in key order, pair i (0..10) having label and value at   *)
(* vertical position top_text_margin + line_spacing * i.                   *)
(***************************************************************************)
C6_OnePairPerRowKey ==
    /\ last.op \in {"make_slate", "make_mov"} => last.exc # "KeyError"
    /\ SlateBuilt =>
        LET es == Entries(GraphOf(last.slate_cmd))
            N == Len(RowKeys)
        IN /\ Len(es) = 2 + 2 * N
           /\ EntryText(es[1]) = Format(fields_data["company_name"])
           /\ EntryText(es[2]) = Format(fields_data["project_name"])
           /\ PairStarts(es) = {2 * i + 3 : i \in 0..(N - 1)}
           /\ \A i \in 0..(N - 1) : PairShows(es, i, RowKeys[i + 1])

\* C6 as stated: one pair per FieldSet key, N the number of FieldSet keys
C6_AsStated ==
    SlateBuilt =>
        LET es == Entries(GraphOf(last.slate_cmd))
            N == Len(FieldKeys)
        IN /\ Cardinality(PairStarts(es)) = N
           /\ \A i \in 0..(N - 1) : PairShows(es, i, FieldKeys[i + 1])

C6_Witness ==
    /\ last.op = "make_slate" /\ SlateBuilt
    /\ fields_data["lut"] = ValColon
    /\ fields_data["description"] = ValColon


(***************************************************************************)
(* C7: two make_slate calls in a row on the same instance, with the same   *)
(* FieldSet and the same sequence, generate the same command (argument     *)
(* list, graph, output path), although the first call has grown the        *)
(* temp-file registry.                                                     *)
(***************************************************************************)
TwoSlatesInARow ==
    /\ last.op = "make_slate" /\ prev.op = "make_slate"
    /\ prev.src = last.src

C7_SlateCommandRepeatable ==
    TwoSlatesInARow =>
        /\ last.exc = prev.exc
        /\ last.slate_cmd = prev.cmd
        /\ last.ret = prev.ret

C7_Witness ==
    /\ TwoSlatesInARow /\ SlateBuilt /\ prev.cmd # <<>>
    /\ Len(tmp_files) >= 2
    /\ last.before # <<>>
    /\ fields_data["lut"] = ValApos

(***************************************************************************)
(* C8: every make_mov call that completes resolves the sequence before any *)
(* engine invocation; with slate=True it invokes the engine exactly twice, *)
(* the slate invocation exiting before the movie invocation starts; with   *)
(* slate=False it invokes the engine exactly once and issues no slate      *)
(* command; and it returns the out_mov argument.                           *)
(***************************************************************************)
EventPos(ev) == {i \in 1..Len(last.events) : last.events[i] = ev}
CallPos == {i \in 1..Len(last.events) : last.events[i][1] = "call"}
ExitPos(what) ==
    {i \in 1..Len(last.events) :
        IsExit(last.events[i]) /\ last.events[i][2] = what}

C8_MovStages ==
    MovBuilt =>
        /\ last.events[1] = <<"resolve">>
        /\ \A i \in CallPos : i > 1
        /\ Cardinality(EventPos(<<"call", "mov">>)) = 1
        /\ Cardinality(ExitPos("mov")) = 1
        /\ MaxOf(ExitPos("mov")) = MaxOf(EventPos(<<"call", "mov">>)) + 1
        /\ MaxOf(ExitPos("mov")) = Len(last.events)
        /\ IF last.slate
           THEN /\ Cardinality(CallPos) = 2
                /\ Cardinality(EventPos(<<"call", "slate">>)) = 1
                /\ Cardinality(ExitPos("slate")) = 1
                /\ MaxOf(EventPos(<<"call", "slate">>)) < MaxOf(ExitPos("slate"))
                /\ MaxOf(ExitPos("slate")) < MaxOf(EventPos(<<"call", "mov">>))
                /\ last.slate_cmd # <<>>
           ELSE /\ Cardinality(CallPos) = 1
                /\ last.slate_cmd = <<>>
                /\ tmp_files = last.before
        /\ last.ret = last.out_mov

C8_Witness ==
    /\ MovBuilt /\ last.slate /\ Len(last.events) = 7
    /\ last.ret = OutMov

(***************************************************************************)
(* C9: when TMPDIR is set, _get_tmp_file(name) returns directory/name, the *)
(* directory exists afterwards, the file itself is not created, and the    *)
(* registry grows by exactly that one path.                                *)
(***************************************************************************)
C9_TmpFileAllocated ==
    (last.op = "_get_tmp_file" /\ environ # None) =>
        /\ last.exc = "none"
        /\ last.ret = os_path_abspath(environ) \o <<"/">> \o last.name
        /\ os_path_abspath(environ) \in fs
        /\ last.ret \notin fs
        /\ tmp_files = Append(last.before, last.ret)

(***************************************************************************)
(* C10: for each (slate, burnin) the movie graph is a well-formed chain:   *)
(* it begins with scale-to-canvas and setsar on stream 1 labelled base;    *)
(* it has the trim of stream 0 followed by the concat of [slate][base]     *)
(* iff slate is requested; it has exactly two drawtext iff burnin is       *)
(* requested, after the concat when both are; every label a node reads was *)
(* written by an earlier node and not read since; and exactly one output,  *)
(* that of the last node, has no label.                                    *)
(***************************************************************************)
CountOps(cs, name) ==
    Cardinality({<<k, j>> \in (1..Len(cs)) \X (1..3) :
                    j <= Len(cs[k].ops) /\ cs[k].ops[j] = name})

Range(f) == {f[j] : j \in 1..Len(f)}
Links(lbls) == {l \in Range(lbls) : ~IsStream(l)}

\* Labels flow forward: each read label is pending, each read uses it up
RECURSIVE LabelsFlow(_, _, _)
LabelsFlow(cs, k, pending) ==
    IF k > Len(cs) THEN TRUE
    ELSE /\ cs[k].ops # <<>>
         /\ Links(cs[k].ins) \subseteq pending
         /\ Cardinality(Links(cs[k].ins))
              = Cardinality({j \in 1..Len(cs[k].ins) : ~IsStream(cs[k].ins[j])})
         /\ LabelsFlow(cs, k + 1, (pending \ Links(cs[k].ins)) \cup Links(cs[k].outs))

C10_MovGraphWellFormed ==
    MovBuilt =>
        LET g == GraphOf(last.mov_cmd)
            cs == Chains(g)
            n == Len(cs)
            at == cs[1].at
            trims == ChainsLike(cs, <<Stream("0")>>, <<"trim">>, << <<"slate">> >>)
            concats == {k \in 1..n : cs[k].ins = << <<"slate">>, <<"base">> >>
                                     /\ cs[k].ops = <<"concat">>}
            texts == {k \in 1..n : "drawtext" \in Range(cs[k].ops)}
        IN /\ cs[1].ins = <<Stream("1")>>
           /\ cs[1].ops = <<"scale", "setsar">>
           /\ cs[1].outs = << <<"base">> >>
           /\ SubSeq(g, at + 1, at + 2 + Len(new_x) + Len(new_y))
                = <<"=">> \o new_x \o <<":">> \o new_y
           /\ last.slate <=> \E k \in trims : k + 1 \in concats
           /\ ~last.slate => (CountOps(cs, "trim") = 0 /\ CountOps(cs, "concat") = 0)
           /\ CountOps(cs, "drawtext") = (IF last.burnin THEN 2 ELSE 0)
           /\ (last.slate /\ last.burnin) =>
                 \A k \in texts : \A c \in concats : c < k
           /\ LabelsFlow(cs, 1, {})
           /\ {k \in 1..n : cs[k].outs = <<>>} = {n}

C10_Witness ==
    /\ MovBuilt /\ last.slate /\ last.burnin
    /\ Len(Chains(GraphOf(last.mov_cmd))) = 5

====
